---- MODULE Spec2Model ----
(***************************************************************************)
(* nuvo51icp: the flashing workflow of main() in src/nuvo51icp/main.c,     *)
(* run against an ICP transport and an N76E003-like device.                *)
(*                                                                         *)
(* Byte buffers (read_data, write_data, ldrom_data, the device flash, the  *)
(* image files) are kept run-length encoded: a buffer is a sequence of     *)
(* runs [n |-> length, v |-> byte], no run empty and no two neighbours     *)
(* with the same byte, so two buffers hold the same bytes exactly when     *)
(* their encodings are equal.                                              *)
(***************************************************************************)
EXTENDS Integers, Sequences, FiniteSets, TLC

\* ------------------------------------------------------------ bounds
\* most options getopt hands to the loop in one run
MaxArgs == 3
\* most failing flash read / flash write / mass erase calls in one run
MaxFaults == 1
\* how far past a buffer's capacity the longest image file reaches
MaxOver == 1

\* ------------------------------------------------- program constants
N76E003_DEVID == 13904
\* config.h (layout constants of the N76E003: 18 KiB flash, 4 KiB LDROM)
FLASH_SIZE == 18432
LDROM_MAX_SIZE == 4096
APROM_FLASH_ADDR == 0
CFG_FLASH_ADDR == 196608
CFG_FLASH_LEN == 5
\* the 1 KiB granule of the LDROM size (the literal 1024 of lines 238, 239)
KiB == 1024
\* the locked-chip sentinel compared with devinfo.cid (the literal 0xFF)
CID_LOCKED == 255
\* the filler byte of the memsets (the literal 0xff), also the erased flash byte
FILL == 255

\* --------------------------------------------------- run-length bytes
Run(n, v) == IF n <= 0 THEN <<>> ELSE <<[n |-> n, v |-> v]>>

RECURSIVE Take(_, _)
Take(b, k) ==
  IF k <= 0 \/ b = <<>> THEN <<>>
  ELSE IF Head(b).n <= k THEN <<Head(b)>> \o Take(Tail(b), k - Head(b).n)
  ELSE <<[n |-> k, v |-> Head(b).v]>>

RECURSIVE Drop(_, _)
Drop(b, k) ==
  IF b = <<>> THEN <<>>
  ELSE IF k <= 0 THEN b
  ELSE IF Head(b).n <= k THEN Drop(Tail(b), k - Head(b).n)
  ELSE <<[n |-> Head(b).n - k, v |-> Head(b).v]>> \o Tail(b)

Cat(a, b) ==
  IF a = <<>> THEN b
  ELSE IF b = <<>> THEN a
  ELSE IF a[Len(a)].v = b[1].v
       THEN SubSeq(a, 1, Len(a) - 1)
            \o <<[n |-> a[Len(a)].n + b[1].n, v |-> b[1].v]>>
            \o Tail(b)
       ELSE a \o b

\* memset(buf, v, n)
memset(v, n) == Run(n, v)

\* memcpy(&dst[off], src, n): n bytes of src over dst at offset off
memcpy(dst, off, src, n) ==
  Cat(Cat(Take(dst, off), Take(src, n)), Drop(dst, off + n))

\* memcmp(a, b, n): 0 when the first n bytes agree, non-zero otherwise
memcmp(a, b, n) == IF Take(a, n) = Take(b, n) THEN 0 ELSE 1

\* C's integer division, which truncates toward zero
CDiv(a, b) == IF a >= 0 THEN a \div b ELSE -((-a) \div b)

Min(a, b) == IF a <= b THEN a ELSE b

\* ------------------------------------------------- configuration bytes
\* config_flags: the bit fields main() reads and writes; every other bit of the
\* CFG_FLASH_LEN bytes stays 1
Configs == [LOCK : 0..1, CBS : 0..1, LDS : 0..7]

\* blank_cfg / get_default_config(): all five bytes 0xFF, so every field all-ones
get_default_config == [LOCK |-> 1, CBS |-> 1, LDS |-> 7]

\* ------------------------------------------------------- loader planner
\* the size plan with the rounding slip of dividing the length itself, which
\* gives an image of exactly n KiB one KiB too many
chosen_ldrom_sz_kb_floor(ldrom_size) == (CDiv(ldrom_size, KiB) + 1) % 256

\* line 238: the LDROM size in KiB (a uint8_t)
chosen_ldrom_sz_kb(ldrom_size) == (CDiv(ldrom_size - 1, KiB) + 1) % 256

\* line 239: the LDROM size in bytes
chosen_ldrom_sz_of(ldrom_size) == chosen_ldrom_sz_kb(ldrom_size) * KiB

\* the LDS code counted down from 8, one code off
LDS_from_eight(sz_kb) == (8 - sz_kb) % 8

\* line 241: the LDS code of a size in KiB
LDS_of(sz_kb) == (7 - sz_kb) % 8

\* the application capacity taken to be the whole flash, the loader ignored
aprom_size_whole_flash(ldrom_sz) == FLASH_SIZE

\* line 251
aprom_size_of(ldrom_sz) == FLASH_SIZE - ldrom_sz

\* fread(buf, 1, max, file): the count read from a file of the given length
fread_count(max, file_len) == Min(max, file_len)


\* ---------------------------------------------------------------- state
VARIABLES
  pc,                  \* the statement of main() to run next
  argn,                \* options getopt has returned so far
  write_aprom, write_ldrom, read_aprom, dump_config, lock_chip,
  filename, filename_ldrom, file, file_ldrom,
  read_data, write_data, ldrom_data,
  aprom_program_size, ldrom_program_size, chosen_ldrom_sz, aprom_size,
  devinfo, current_config, write_config,
  answer,              \* the character getchar() returned at the prompt
  verify,              \* outcome of the memcmp of line 266
  ret,                 \* the process's exit status
  out_file,            \* the contents of the file opened "wb"
  ldrom_file_len, aprom_file_len,   \* sizes of the image files fread has met
  calls,               \* the transport calls made so far, in order
  faults,              \* failing flash read / write / erase calls so far
  dev_ident, dev_resp, dev_cfg, dev_flash   \* the chip behind the transport

optVars == <<argn, write_aprom, write_ldrom, read_aprom, dump_config, lock_chip,
             filename, filename_ldrom>>
fileVars == <<file, file_ldrom, out_file, ldrom_file_len, aprom_file_len>>
bufVars == <<read_data, write_data, ldrom_data>>
planVars == <<aprom_program_size, ldrom_program_size, chosen_ldrom_sz, aprom_size,
              write_config>>
devVars == <<dev_ident, dev_resp, dev_cfg, dev_flash>>
vars == <<pc, optVars, fileVars, bufVars, planVars, devinfo, current_config, answer,
          verify, ret, calls, faults, devVars>>

\* ------------------------------------------------- the inputs of a run
\* what getopt(argc, argv, "uhsr:w:l:") can return: an option, '?' for an
\* unknown one, or -1 at the end of the arguments
Opts == {"u", "h", "s", "r", "w", "l", "?"}

\* what getchar() can return at the mass-erase prompt
Answers == {"y", "Y", "n", "EOF"}

\* lengths of the image files on disk
LdromLens == {0, 1, KiB, KiB + 1, LDROM_MAX_SIZE, LDROM_MAX_SIZE + MaxOver}
ApromLens == {0, 18000, FLASH_SIZE, FLASH_SIZE + MaxOver}
AllLdromLens == 0 .. (LDROM_MAX_SIZE + MaxOver)

\* an image file of n bytes: the application image is n bytes 0x00, the loader
\* image n bytes 0xA5
ApromFile(n) == Run(n, 0)
LdromFile(n) == Run(n, 165)

\* the chips on the bench: an N76E003, another part, an N76E003 whose company
\* id reads as the locked sentinel
Idents == { [devid |-> N76E003_DEVID, cid |-> 218, uid |-> 1, ucid |-> 1],
            [devid |-> 12112, cid |-> 218, uid |-> 2, ucid |-> 2],
            [devid |-> N76E003_DEVID, cid |-> CID_LOCKED, uid |-> 1, ucid |-> 1] }

\* flash contents the chip can hold at the start: blank, or an earlier image
StartFlash == { Run(FLASH_SIZE, FILL),
                Cat(Run(KiB, 90), Run(FLASH_SIZE - KiB, FILL)) }

\* an uninitialised config_flags (line 209) that a failed read left untouched:
\* stack garbage, here all bits clear or all bits set
GarbageConfigs == { [LOCK |-> 0, CBS |-> 0, LDS |-> 0], get_default_config }

\* ----------------------------------------------------------- transport
\* one entry of the call log
Call(op, args, ok) == [op |-> op, args |-> args, ok |-> ok]

\* get_device_info(): the four identity reads; a chip that does not respond
\* reads as all ones
IdentRead ==
  IF dev_resp THEN dev_ident
  ELSE [devid |-> 65535, cid |-> CID_LOCKED, uid |-> 0, ucid |-> 0]

get_device_info_calls ==
  << Call("N51ICP_read_device_id", <<>>, TRUE), Call("N51ICP_read_cid", <<>>, TRUE),
     Call("N51ICP_read_uid", <<>>, TRUE), Call("N51ICP_read_ucid", <<>>, TRUE) >>

\* N51ICP_reentry(5000, 1000, 10)
reentry_call == Call("N51ICP_reentry", <<5000, 1000, 10>>, TRUE)

\* N51ICP_read_flash(addr, len, buf) on the flash array: the bytes stored there
FlashRead(addr, len) == Take(Drop(dev_flash, addr), len)

\* N51ICP_write_flash(addr, len, buf) on the flash array: the flash afterwards
FlashWritten(addr, len, buf) == memcpy(dev_flash, addr, buf, len)

\* N51ICP_mass_erase(): every flash byte 0xFF, configuration bytes blank
ErasedFlash == Run(FLASH_SIZE, FILL)

\* a flash read, flash write or mass erase may fail, at most MaxFaults times
MayFail(ok) ==
  /\ ok \/ faults < MaxFaults
  /\ faults' = IF ok THEN faults ELSE faults + 1


\* values of the locals main() has not assigned yet
NoIdent == [devid |-> -1, cid |-> -1, uid |-> -1, ucid |-> -1]
NoConfig == [LOCK |-> -1, CBS |-> -1, LDS |-> -1]

\* ----------------------------------------------------------------- Init
\* main() after the memsets of lines 117-119, before the argc test
Init ==
  /\ pc = "start"
  /\ argn = 0
  /\ write_aprom = 0 /\ write_ldrom = 0 /\ read_aprom = 0
  /\ dump_config = FALSE /\ lock_chip = FALSE
  /\ filename = "NULL" /\ filename_ldrom = "NULL"
  /\ file = "NULL" /\ file_ldrom = "NULL"
  /\ out_file = [state |-> "untouched", data |-> <<>>]
  /\ ldrom_file_len = -1 /\ aprom_file_len = -1
  /\ read_data = memset(FILL, FLASH_SIZE)
  /\ write_data = memset(FILL, FLASH_SIZE)
  /\ ldrom_data = memset(FILL, LDROM_MAX_SIZE)
  /\ aprom_program_size = 0 /\ ldrom_program_size = 0
  /\ chosen_ldrom_sz = 0 /\ aprom_size = -1
  /\ devinfo = NoIdent /\ current_config = NoConfig /\ write_config = NoConfig
  /\ answer = "none" /\ verify = "none" /\ ret = -1
  /\ calls = <<>> /\ faults = 0
  /\ dev_ident \in Idents
  /\ dev_resp \in BOOLEAN
  /\ dev_cfg \in {c \in Configs : c.CBS = 1 /\ c.LDS = 7}
  /\ dev_flash \in StartFlash

\* usage(): prints the help and calls exit(1)
usage == pc' = "done" /\ ret' = 1

\* ------------------------------------------------------------- actions
\* lines 120-123: no argument at all
Start ==
  /\ pc = "start"
  /\ \E argc \in 1..2 :
       IF argc <= 1 THEN usage ELSE pc' = "getopt" /\ ret' = ret
  /\ UNCHANGED <<optVars, fileVars, bufVars, planVars, devinfo, current_config,
                 answer, verify, calls, faults, devVars>>

\* lines 125-154: one turn of the getopt loop
Getopt ==
  /\ pc = "getopt"
  /\ \E opt \in Opts \cup {"end"} :
       /\ opt = "end" \/ argn < MaxArgs
       /\ argn' = IF opt = "end" THEN argn ELSE argn + 1
       /\ dump_config' = (dump_config \/ opt = "u")
       /\ read_aprom' = IF opt = "r" THEN 1 ELSE read_aprom
       /\ write_aprom' = IF opt = "w" THEN 1 ELSE write_aprom
       /\ write_ldrom' = IF opt = "l" THEN 1 ELSE write_ldrom
       /\ lock_chip' = (lock_chip \/ opt = "s")
       /\ filename' = IF opt \in {"r", "w"} THEN "optarg" ELSE filename
       /\ filename_ldrom' = IF opt = "l" THEN "optarg" ELSE filename_ldrom
       /\ IF opt \in {"h", "?"} THEN usage
          ELSE /\ ret' = ret
               /\ pc' = IF opt = "end" \/ opt = "u" THEN "check" ELSE "getopt"
  /\ UNCHANGED <<fileVars, bufVars, planVars, devinfo, current_config,
                 answer, verify, calls, faults, devVars>>

\* the selection check without the read-and-write test
CheckOps_NoConflict ==
  /\ pc = "check"
  /\ IF read_aprom = 0 /\ write_aprom = 0 /\ ~dump_config THEN usage
     ELSE pc' = "open" /\ ret' = ret
  /\ UNCHANGED <<optVars, fileVars, bufVars, planVars, devinfo, current_config,
                 answer, verify, calls, faults, devVars>>

\* lines 155-162: the selection of operations
CheckOps ==
  /\ pc = "check"
  /\ IF read_aprom = 1 /\ write_aprom = 1 THEN usage
     ELSE IF read_aprom = 0 /\ write_aprom = 0 /\ ~dump_config THEN usage
     ELSE pc' = "open" /\ ret' = ret
  /\ UNCHANGED <<optVars, fileVars, bufVars, planVars, devinfo, current_config,
                 answer, verify, calls, faults, devVars>>

\* lines 164-179: fopen of the image files; fopen(.., "wb") empties the file
OpenFiles ==
  /\ pc = "open"
  /\ \E ok1 \in BOOLEAN, ok2 \in BOOLEAN :
       LET open1 == ~dump_config /\ filename # "NULL"
           open2 == ~dump_config /\ filename_ldrom # "NULL"
           mode == IF write_aprom = 1 THEN "rb" ELSE "wb"
       IN  /\ open1 \/ ok1
           /\ (open2 /\ (ok1 \/ ~open1)) \/ ok2
           /\ file' = IF open1 /\ ok1 THEN mode ELSE file
           /\ out_file' = IF open1 /\ ok1 /\ mode = "wb"
                          THEN [state |-> "truncated", data |-> <<>>]
                          ELSE out_file
           /\ file_ldrom' = IF open2 /\ ok1 /\ ok2 THEN "rb" ELSE file_ldrom
           /\ UNCHANGED <<ldrom_file_len, aprom_file_len>>
           /\ IF ok1 /\ ok2 THEN pc' = "init" /\ ret' = ret ELSE usage
  /\ UNCHANGED <<optVars, bufVars, planVars, devinfo, current_config,
                 answer, verify, calls, faults, devVars>>

\* lines 181-184: N51ICP_init(true); a failure jumps to err, past the shutdown
InitICP ==
  /\ pc = "init"
  /\ \E ok \in BOOLEAN :
       /\ calls' = Append(calls, Call("N51ICP_init", <<>>, ok))
       /\ IF ok THEN pc' = "devinfo" /\ ret' = ret
          ELSE pc' = "done" /\ ret' = 1
  /\ UNCHANGED <<optVars, fileVars, bufVars, planVars, devinfo, current_config,
                 answer, verify, faults, devVars>>

\* lines 185-187: the first identity read
GetDeviceInfo ==
  /\ pc = "devinfo"
  /\ devinfo' = IdentRead
  /\ calls' = calls \o get_device_info_calls
  /\ pc' = IF IdentRead.cid = CID_LOCKED THEN "reentry" ELSE "check_devid"
  /\ UNCHANGED <<optVars, fileVars, bufVars, planVars, current_config,
                 answer, verify, ret, faults, devVars>>

\* lines 188-189: re-enter ICP mode and read the identity again; the re-entry
\* may or may not bring the chip back
Reentry ==
  /\ pc = "reentry"
  /\ \E resp \in BOOLEAN :
       /\ dev_resp' = resp
       /\ devinfo' = IF resp THEN dev_ident
                     ELSE [devid |-> 65535, cid |-> CID_LOCKED, uid |-> 0, ucid |-> 0]
  /\ calls' = (calls \o <<reentry_call>>) \o get_device_info_calls
  /\ pc' = "check_devid"
  /\ UNCHANGED <<optVars, fileVars, bufVars, planVars, current_config,
                 answer, verify, ret, faults, dev_ident, dev_cfg, dev_flash>>

\* the identity check without the jump to out_err: an unsupported chip goes on
CheckDevice_NoModelCheck ==
  /\ pc = "check_devid"
  /\ IF devinfo.devid # N76E003_DEVID
        /\ (write_ldrom = 1 \/ write_aprom = 1) /\ devinfo.cid = CID_LOCKED
     THEN \E c \in Answers : answer' = c
     ELSE answer' = answer
  /\ pc' = "read_cfg"
  /\ UNCHANGED <<optVars, fileVars, bufVars, planVars, devinfo, current_config,
                 verify, ret, calls, faults, devVars>>

\* lines 192-207: the model check and the mass-erase prompt
CheckDevice ==
  /\ pc = "check_devid"
  /\ IF devinfo.devid # N76E003_DEVID
     THEN IF (write_ldrom = 1 \/ write_aprom = 1) /\ devinfo.cid = CID_LOCKED
          THEN /\ \E c \in Answers : answer' = c
               /\ pc' = "read_cfg"
          ELSE /\ pc' = "out_err"
               /\ answer' = answer
     ELSE /\ pc' = "read_cfg"
          /\ answer' = answer
  /\ UNCHANGED <<optVars, fileVars, bufVars, planVars, devinfo, current_config,
                 verify, ret, calls, faults, devVars>>


\* N51ICP_read_flash / N51ICP_write_flash / N51ICP_mass_erase as log entries
read_flash_call(addr, len, ok) == Call("N51ICP_read_flash", <<addr, len>>, ok)
write_flash_call(addr, len, buf, ok) == Call("N51ICP_write_flash", <<addr, len, buf>>, ok)
mass_erase_call(ok) == Call("N51ICP_mass_erase", <<>>, ok)
print_config_call == Call("N51ICP_print_config", <<>>, TRUE)
dump_config_call == Call("N51ICP_dump_config", <<>>, TRUE)
shutdown_calls == << Call("N51ICP_exit", <<>>, TRUE), Call("N51PGM_deinit", <<0>>, TRUE) >>

\* the configuration read without the LOCK test: a locked chip is read anyway
ReadConfig_NoLockCheck ==
  /\ pc = "read_cfg"
  /\ \E ok \in BOOLEAN :
       /\ MayFail(ok)
       /\ \E cfg \in (IF ok THEN {dev_cfg} ELSE GarbageConfigs) : current_config' = cfg
       /\ calls' = Append(calls, read_flash_call(CFG_FLASH_ADDR, CFG_FLASH_LEN, ok))
       /\ pc' = "erase"
  /\ UNCHANGED <<optVars, fileVars, bufVars, planVars, devinfo,
                 answer, verify, ret, devVars>>

\* lines 209-216: read the configuration bytes; a locked chip cannot be read
ReadConfig ==
  /\ pc = "read_cfg"
  /\ \E ok \in BOOLEAN :
       /\ MayFail(ok)
       /\ \E cfg \in (IF ok THEN {dev_cfg} ELSE GarbageConfigs) :
            /\ current_config' = cfg
            /\ IF cfg.LOCK = 0 /\ write_aprom = 0 /\ write_ldrom = 0
               THEN /\ calls' = calls \o << read_flash_call(CFG_FLASH_ADDR, CFG_FLASH_LEN, ok),
                                           print_config_call >>
                    /\ pc' = "out_err"
               ELSE /\ calls' = Append(calls, read_flash_call(CFG_FLASH_ADDR, CFG_FLASH_LEN, ok))
                    /\ pc' = "erase"
  /\ UNCHANGED <<optVars, fileVars, bufVars, planVars, devinfo,
                 answer, verify, ret, devVars>>

\* the mass erase followed by a re-entry whatever the chip had reported
Erase_ReenterAlways ==
  /\ pc = "erase"
  /\ IF write_aprom = 1 \/ write_ldrom = 1
     THEN \E ok \in BOOLEAN, resp \in BOOLEAN :
            LET again == TRUE
            IN  /\ MayFail(ok)
                /\ dev_flash' = IF ok THEN ErasedFlash ELSE dev_flash
                /\ dev_cfg' = IF ok THEN get_default_config ELSE dev_cfg
                /\ again \/ resp = dev_resp
                /\ dev_resp' = resp
                /\ calls' = calls \o <<mass_erase_call(ok)>>
                                  \o (IF again THEN <<reentry_call>> ELSE <<>>)
                                  \o <<print_config_call>>
     ELSE /\ calls' = Append(calls, print_config_call)
          /\ UNCHANGED <<faults, dev_flash, dev_cfg, dev_resp>>
  /\ pc' = IF dump_config THEN "out" ELSE "ldrom"
  /\ UNCHANGED <<optVars, fileVars, bufVars, planVars, devinfo, current_config,
                 answer, verify, ret, dev_ident>>

\* the mass erase without the test of the write flags
Erase_Always ==
  /\ pc = "erase"
  /\ IF TRUE
     THEN \E ok \in BOOLEAN, resp \in BOOLEAN :
            LET again == current_config.LOCK = 0 \/ devinfo.cid = CID_LOCKED
            IN  /\ MayFail(ok)
                /\ dev_flash' = IF ok THEN ErasedFlash ELSE dev_flash
                /\ dev_cfg' = IF ok THEN get_default_config ELSE dev_cfg
                /\ again \/ resp = dev_resp
                /\ dev_resp' = resp
                /\ calls' = calls \o <<mass_erase_call(ok)>>
                                  \o (IF again THEN <<reentry_call>> ELSE <<>>)
                                  \o <<print_config_call>>
     ELSE /\ calls' = Append(calls, print_config_call)
          /\ UNCHANGED <<faults, dev_flash, dev_cfg, dev_resp>>
  /\ pc' = IF dump_config THEN "out" ELSE "ldrom"
  /\ UNCHANGED <<optVars, fileVars, bufVars, planVars, devinfo, current_config,
                 answer, verify, ret, dev_ident>>

\* lines 218-230: mass erase (and re-entry) before any write, the printout, and
\* the exit of a dump-config run
Erase ==
  /\ pc = "erase"
  /\ IF write_aprom = 1 \/ write_ldrom = 1
     THEN \E ok \in BOOLEAN, resp \in BOOLEAN :
            LET again == current_config.LOCK = 0 \/ devinfo.cid = CID_LOCKED
            IN  /\ MayFail(ok)
                /\ dev_flash' = IF ok THEN ErasedFlash ELSE dev_flash
                /\ dev_cfg' = IF ok THEN get_default_config ELSE dev_cfg
                /\ again \/ resp = dev_resp
                /\ dev_resp' = resp
                /\ calls' = calls \o <<mass_erase_call(ok)>>
                                  \o (IF again THEN <<reentry_call>> ELSE <<>>)
                                  \o <<print_config_call>>
     ELSE /\ calls' = Append(calls, print_config_call)
          /\ UNCHANGED <<faults, dev_flash, dev_cfg, dev_resp>>
  /\ pc' = IF dump_config THEN "out" ELSE "ldrom"
  /\ UNCHANGED <<optVars, fileVars, bufVars, planVars, devinfo, current_config,
                 answer, verify, ret, dev_ident>>

\* the loader plan going straight to the loader write, the write of the
\* configuration bytes left out
ProgramLdrom_NoConfig(L) ==
  /\ pc = "ldrom"
  /\ IF write_ldrom = 1
     THEN LET n == fread_count(LDROM_MAX_SIZE, L)
          IN  /\ ldrom_file_len' = L
              /\ ldrom_program_size' = n
              /\ ldrom_data' = memcpy(ldrom_data, 0, LdromFile(L), n)
              /\ chosen_ldrom_sz' = chosen_ldrom_sz_of(n)
              /\ write_config' = [get_default_config EXCEPT
                                    !.CBS = 0, !.LDS = LDS_of(chosen_ldrom_sz_kb(n))]
              /\ pc' = "write_ldrom"
     ELSE /\ chosen_ldrom_sz' = 0
          /\ write_config' = get_default_config
          /\ pc' = "aprom"
          /\ UNCHANGED <<ldrom_program_size, ldrom_data, ldrom_file_len>>
  /\ UNCHANGED <<optVars, file, file_ldrom, out_file, aprom_file_len,
                 read_data, write_data, aprom_program_size,
                 aprom_size, devinfo, current_config, answer, verify, ret, calls,
                 faults, devVars>>

\* lines 232-241: the default configuration and, for a loader image of L bytes
\* on disk, the fread and the size plan
ProgramLdrom(L) ==
  /\ pc = "ldrom"
  /\ IF write_ldrom = 1
     THEN LET n == fread_count(LDROM_MAX_SIZE, L)
          IN  /\ ldrom_file_len' = L
              /\ ldrom_program_size' = n
              /\ ldrom_data' = memcpy(ldrom_data, 0, LdromFile(L), n)
              /\ chosen_ldrom_sz' = chosen_ldrom_sz_of(n)
              /\ write_config' = [get_default_config EXCEPT
                                    !.CBS = 0, !.LDS = LDS_of(chosen_ldrom_sz_kb(n))]
              /\ pc' = "write_cfg"
     ELSE /\ chosen_ldrom_sz' = 0
          /\ write_config' = get_default_config
          /\ pc' = "aprom"
          /\ UNCHANGED <<ldrom_program_size, ldrom_data, ldrom_file_len>>
  /\ UNCHANGED <<optVars, file, file_ldrom, out_file, aprom_file_len,
                 read_data, write_data, aprom_program_size,
                 aprom_size, devinfo, current_config, answer, verify, ret, calls,
                 faults, devVars>>

\* line 243: write the planned configuration bytes
WriteConfig ==
  /\ pc = "write_cfg"
  /\ \E ok \in BOOLEAN :
       /\ MayFail(ok)
       /\ dev_cfg' = IF ok THEN write_config ELSE dev_cfg
       /\ calls' = Append(calls, write_flash_call(CFG_FLASH_ADDR, CFG_FLASH_LEN,
                                                  write_config, ok))
  /\ pc' = "write_ldrom"
  /\ UNCHANGED <<optVars, fileVars, bufVars, planVars, devinfo, current_config,
                 answer, verify, ret, dev_ident, dev_resp, dev_flash>>

\* lines 245-246: program the loader image at the top of the flash
WriteLdrom ==
  /\ pc = "write_ldrom"
  /\ \E ok \in BOOLEAN :
       LET addr == FLASH_SIZE - chosen_ldrom_sz
       IN  /\ MayFail(ok)
           /\ dev_flash' = IF ok THEN FlashWritten(addr, ldrom_program_size, ldrom_data)
                           ELSE dev_flash
           /\ calls' = Append(calls, write_flash_call(addr, ldrom_program_size,
                                                      Take(ldrom_data, ldrom_program_size), ok))
  /\ pc' = "aprom"
  /\ UNCHANGED <<optVars, fileVars, bufVars, planVars, devinfo, current_config,
                 answer, verify, ret, dev_ident, dev_resp, dev_cfg>>

\* lines 249-252: the application capacity and the fread of an application
\* image of A bytes on disk
ProgramAprom(A) ==
  /\ pc = "aprom"
  /\ IF write_aprom = 1
     THEN LET size == aprom_size_of(chosen_ldrom_sz)
              n == fread_count(size, A)
          IN  /\ aprom_file_len' = A
              /\ aprom_size' = size
              /\ aprom_program_size' = n
              /\ write_data' = memcpy(write_data, 0, ApromFile(A), n)
              /\ pc' = "write_aprom"
     ELSE /\ pc' = "written"
          /\ UNCHANGED <<aprom_size, aprom_program_size, write_data, aprom_file_len>>
  /\ UNCHANGED <<optVars, file, file_ldrom, out_file, ldrom_file_len, read_data, ldrom_data, ldrom_program_size,
                 chosen_ldrom_sz, write_config, devinfo, current_config, answer,
                 verify, ret, calls, faults, devVars>>

\* the application write with the capacity as its length, not the count fread
\* returned
WriteAprom_FullSize ==
  /\ pc = "write_aprom"
  /\ \E ok \in BOOLEAN :
       /\ MayFail(ok)
       /\ dev_flash' = IF ok THEN FlashWritten(APROM_FLASH_ADDR, aprom_size, write_data)
                       ELSE dev_flash
       /\ calls' = Append(calls, write_flash_call(APROM_FLASH_ADDR, aprom_size,
                                                  Take(write_data, aprom_size), ok))
  /\ pc' = "written"
  /\ UNCHANGED <<optVars, fileVars, bufVars, planVars, devinfo, current_config,
                 answer, verify, ret, dev_ident, dev_resp, dev_cfg>>

\* lines 255-256: program the application image at address 0
WriteAprom ==
  /\ pc = "write_aprom"
  /\ \E ok \in BOOLEAN :
       /\ MayFail(ok)
       /\ dev_flash' = IF ok THEN FlashWritten(APROM_FLASH_ADDR, aprom_program_size, write_data)
                       ELSE dev_flash
       /\ calls' = Append(calls, write_flash_call(APROM_FLASH_ADDR, aprom_program_size,
                                                  Take(write_data, aprom_program_size), ok))
  /\ pc' = "written"
  /\ UNCHANGED <<optVars, fileVars, bufVars, planVars, devinfo, current_config,
                 answer, verify, ret, dev_ident, dev_resp, dev_cfg>>

\* lines 259-261: after a write, read the whole flash back
VerifyRead ==
  /\ pc = "written"
  /\ write_aprom = 1 \/ write_ldrom = 1
  /\ \E ok \in BOOLEAN :
       /\ MayFail(ok)
       /\ read_data' = IF ok THEN FlashRead(APROM_FLASH_ADDR, FLASH_SIZE) ELSE read_data
       /\ calls' = Append(calls, read_flash_call(APROM_FLASH_ADDR, FLASH_SIZE, ok))
  /\ pc' = "compare"
  /\ UNCHANGED <<optVars, fileVars, write_data, ldrom_data, planVars, devinfo,
                 current_config, answer, verify, ret, devVars>>

\* the compare without the jump to out_err: a mismatch is reported and the run
\* goes on to the lock
Compare_NoAbort ==
  /\ pc = "compare"
  /\ LET expected == memcpy(write_data, FLASH_SIZE - chosen_ldrom_sz, ldrom_data,
                            chosen_ldrom_sz)
     IN  /\ write_data' = expected
         /\ IF memcmp(expected, read_data, FLASH_SIZE) # 0
            THEN /\ calls' = Append(calls, dump_config_call)
                 /\ verify' = "fail"
            ELSE /\ calls' = calls
                 /\ verify' = "ok"
         /\ pc' = "lock"
  /\ UNCHANGED <<optVars, fileVars, read_data, ldrom_data, planVars, devinfo,
                 current_config, answer, ret, faults, devVars>>

\* the compare without the diagnostic dump on a mismatch
Compare_NoDump ==
  /\ pc = "compare"
  /\ LET expected == memcpy(write_data, FLASH_SIZE - chosen_ldrom_sz, ldrom_data,
                            chosen_ldrom_sz)
     IN  /\ write_data' = expected
         /\ IF memcmp(expected, read_data, FLASH_SIZE) # 0
            THEN verify' = "fail" /\ pc' = "out_err"
            ELSE verify' = "ok" /\ pc' = "lock"
  /\ UNCHANGED <<optVars, fileVars, read_data, ldrom_data, planVars, devinfo,
                 current_config, answer, ret, calls, faults, devVars>>

\* lines 265-271: build the expected image and compare it with the read-back
Compare ==
  /\ pc = "compare"
  /\ LET expected == memcpy(write_data, FLASH_SIZE - chosen_ldrom_sz, ldrom_data,
                            chosen_ldrom_sz)
     IN  /\ write_data' = expected
         /\ IF memcmp(expected, read_data, FLASH_SIZE) # 0
            THEN /\ calls' = Append(calls, dump_config_call)
                 /\ verify' = "fail"
                 /\ pc' = "out_err"
            ELSE /\ calls' = calls
                 /\ verify' = "ok"
                 /\ pc' = "lock"
  /\ UNCHANGED <<optVars, fileVars, read_data, ldrom_data, planVars, devinfo,
                 current_config, answer, ret, faults, devVars>>

\* lines 272-277: after a successful verify, the optional lock and the dump
Lock ==
  /\ pc = "lock"
  /\ IF lock_chip
     THEN \E ok \in BOOLEAN :
            LET locked == [write_config EXCEPT !.LOCK = 0]
            IN  /\ MayFail(ok)
                /\ write_config' = locked
                /\ dev_cfg' = IF ok THEN locked ELSE dev_cfg
                /\ calls' = calls \o << write_flash_call(CFG_FLASH_ADDR, CFG_FLASH_LEN,
                                                         locked, ok),
                                        dump_config_call >>
     ELSE /\ calls' = Append(calls, dump_config_call)
          /\ UNCHANGED <<write_config, dev_cfg, faults>>
  /\ pc' = "out"
  /\ UNCHANGED <<optVars, fileVars, bufVars, aprom_program_size, ldrom_program_size,
                 chosen_ldrom_sz, aprom_size, devinfo, current_config, answer,
                 verify, ret, dev_ident, dev_resp, dev_flash>>

\* lines 278-289: a run that wrote nothing reads the flash into the file
ReadFlash ==
  /\ pc = "written"
  /\ ~(write_aprom = 1 \/ write_ldrom = 1)
  /\ \E ok \in BOOLEAN, wrote \in BOOLEAN :
       LET data == IF ok THEN FlashRead(APROM_FLASH_ADDR, FLASH_SIZE) ELSE read_data
       IN  /\ MayFail(ok)
           /\ read_data' = data
           /\ calls' = calls \o << dump_config_call,
                                   read_flash_call(APROM_FLASH_ADDR, FLASH_SIZE, ok) >>
           /\ IF wrote
              THEN /\ out_file' = [state |-> "written", data |-> data]
                   /\ pc' = "out"
              ELSE /\ out_file' = out_file
                   /\ pc' = "out_err"
  /\ UNCHANGED <<optVars, file, file_ldrom, ldrom_file_len, aprom_file_len,
                 write_data, ldrom_data, planVars, devinfo,
                 current_config, answer, verify, ret, devVars>>

\* lines 291-294: shut the transport down and return 0
Out ==
  /\ pc = "out"
  /\ calls' = calls \o shutdown_calls
  /\ ret' = 0
  /\ pc' = "done"
  /\ UNCHANGED <<optVars, fileVars, bufVars, planVars, devinfo, current_config,
                 answer, verify, faults, devVars>>

\* lines 295-299: shut the transport down and return 1
OutErr ==
  /\ pc = "out_err"
  /\ calls' = calls \o shutdown_calls
  /\ ret' = 1
  /\ pc' = "done"
  /\ UNCHANGED <<optVars, fileVars, bufVars, planVars, devinfo, current_config,
                 answer, verify, faults, devVars>>

Next ==
  \/ Start
  \/ Getopt
  \/ CheckOps
  \/ OpenFiles
  \/ InitICP
  \/ GetDeviceInfo
  \/ Reentry
  \/ CheckDevice
  \/ ReadConfig
  \/ Erase
  \/ pc = "ldrom" /\ \E L \in LdromLens : ProgramLdrom(L)
  \/ WriteConfig
  \/ WriteLdrom
  \/ pc = "aprom" /\ \E A \in ApromLens : ProgramAprom(A)
  \/ WriteAprom
  \/ VerifyRead
  \/ Compare
  \/ Lock
  \/ ReadFlash
  \/ Out
  \/ OutErr

Spec == Init /\ [][Next]_vars


\* ------------------------------------------- the planner on every length
\* main() at line 232 of a run "-w <file>" or "-w <file> -l <file>" (with or
\* without -s) on a responsive, unlocked N76E003: the transport is up, the
\* identity and the configuration bytes are read, the flash is erased
InitPlan ==
  /\ pc = "ldrom"
  /\ write_aprom = 1 /\ write_ldrom \in {0, 1} /\ read_aprom = 0
  /\ dump_config = FALSE /\ lock_chip \in BOOLEAN
  /\ argn = 1 + write_ldrom + (IF lock_chip THEN 1 ELSE 0)
  /\ filename = "optarg"
  /\ filename_ldrom = IF write_ldrom = 1 THEN "optarg" ELSE "NULL"
  /\ file = "rb"
  /\ file_ldrom = IF write_ldrom = 1 THEN "rb" ELSE "NULL"
  /\ out_file = [state |-> "untouched", data |-> <<>>]
  /\ ldrom_file_len = -1 /\ aprom_file_len = -1
  /\ read_data = memset(FILL, FLASH_SIZE)
  /\ write_data = memset(FILL, FLASH_SIZE)
  /\ ldrom_data = memset(FILL, LDROM_MAX_SIZE)
  /\ aprom_program_size = 0 /\ ldrom_program_size = 0
  /\ chosen_ldrom_sz = 0 /\ aprom_size = -1
  /\ devinfo = [devid |-> N76E003_DEVID, cid |-> 218, uid |-> 1, ucid |-> 1]
  /\ current_config = get_default_config /\ write_config = NoConfig
  /\ answer = "none" /\ verify = "none" /\ ret = -1
  /\ calls = ((<<Call("N51ICP_init", <<>>, TRUE)>> \o get_device_info_calls)
               \o << read_flash_call(CFG_FLASH_ADDR, CFG_FLASH_LEN, TRUE),
                     mass_erase_call(TRUE), print_config_call >>)
  /\ faults = 0
  /\ dev_ident = devinfo
  /\ dev_resp = TRUE
  /\ dev_cfg = get_default_config
  /\ dev_flash = ErasedFlash

NextPlan ==
  \/ pc = "ldrom" /\ \E L \in AllLdromLens : ProgramLdrom(L)
  \/ WriteConfig
  \/ WriteLdrom
  \/ pc = "aprom" /\ \E A \in ApromLens : ProgramAprom(A)

SpecPlan == InitPlan /\ [][NextPlan]_vars


\* ------------------------------- the application image of every length
AllApromLens == 0 .. (FLASH_SIZE + MaxOver)

\* main() at line 249 of a run "-w <file>" (with or without -s) on a
\* responsive, unlocked N76E003: the flash is erased, no loader is planned
InitApp ==
  /\ pc = "aprom"
  /\ write_aprom = 1 /\ write_ldrom = 0 /\ read_aprom = 0
  /\ dump_config = FALSE /\ lock_chip \in BOOLEAN
  /\ argn = 1 + (IF lock_chip THEN 1 ELSE 0)
  /\ filename = "optarg" /\ filename_ldrom = "NULL"
  /\ file = "rb" /\ file_ldrom = "NULL"
  /\ out_file = [state |-> "untouched", data |-> <<>>]
  /\ ldrom_file_len = -1 /\ aprom_file_len = -1
  /\ read_data = memset(FILL, FLASH_SIZE)
  /\ write_data = memset(FILL, FLASH_SIZE)
  /\ ldrom_data = memset(FILL, LDROM_MAX_SIZE)
  /\ aprom_program_size = 0 /\ ldrom_program_size = 0
  /\ chosen_ldrom_sz = 0 /\ aprom_size = -1
  /\ devinfo = [devid |-> N76E003_DEVID, cid |-> 218, uid |-> 1, ucid |-> 1]
  /\ current_config = get_default_config /\ write_config = get_default_config
  /\ answer = "none" /\ verify = "none" /\ ret = -1
  /\ calls = ((<<Call("N51ICP_init", <<>>, TRUE)>> \o get_device_info_calls)
               \o << read_flash_call(CFG_FLASH_ADDR, CFG_FLASH_LEN, TRUE),
                     mass_erase_call(TRUE), print_config_call >>)
  /\ faults = 0
  /\ dev_ident = devinfo
  /\ dev_resp = TRUE
  /\ dev_cfg = get_default_config
  /\ dev_flash = ErasedFlash

NextApp ==
  \/ pc = "aprom" /\ \E A \in AllApromLens : ProgramAprom(A)
  \/ WriteAprom
  \/ VerifyRead
  \/ Compare
  \/ Lock
  \/ Out
  \/ OutErr

SpecApp == InitApp /\ [][NextApp]_vars

\* ----------------------------- both writes on every loader length
\* application file lengths around a capacity
SplitApromLens(cap) == {0, cap - 1, cap, cap + 1, FLASH_SIZE, FLASH_SIZE + MaxOver}

\* lines 232-257 from the state InitPlan, the two image writes included
NextSplit ==
  \/ pc = "ldrom" /\ \E L \in AllLdromLens : ProgramLdrom(L)
  \/ WriteConfig
  \/ WriteLdrom
  \/ pc = "aprom" /\ \E A \in SplitApromLens(aprom_size_of(chosen_ldrom_sz)) : ProgramAprom(A)
  \/ WriteAprom

SpecSplit == InitPlan /\ [][NextSplit]_vars

\* ---------------------------------------------------- reading the call log
CallOps == [i \in 1..Len(calls) |-> calls[i].op]

IdentOps == <<"N51ICP_read_device_id", "N51ICP_read_cid", "N51ICP_read_uid",
              "N51ICP_read_ucid">>
ShutdownOps == <<"N51ICP_exit", "N51PGM_deinit">>

\* a write of the configuration bytes with the lock bit asserted
IsLockWrite(c) ==
  /\ c.op = "N51ICP_write_flash"
  /\ c.args[1] = CFG_FLASH_ADDR
  /\ c.args[3].LOCK = 0

\* the read-back of the whole flash
IsFullRead(c) ==
  c.op = "N51ICP_read_flash" /\ c.args = <<APROM_FLASH_ADDR, FLASH_SIZE>>

\* a write into the part of the flash array a loader image can occupy
IsLoaderWrite(c) ==
  /\ c.op = "N51ICP_write_flash"
  /\ c.args[1] \in (FLASH_SIZE - LDROM_MAX_SIZE) .. (FLASH_SIZE - 1)

MutatingOps == {"N51ICP_mass_erase", "N51ICP_write_flash"}
FlashOps == {"N51ICP_read_flash", "N51ICP_write_flash", "N51ICP_mass_erase"}

NoMutation == \A i \in 1..Len(calls) : calls[i].op \notin MutatingOps

EndsWithShutdown ==
  /\ Len(calls) >= 2
  /\ SubSeq(CallOps, Len(calls) - 1, Len(calls)) = ShutdownOps
  /\ \A i \in 1..(Len(calls) - 2) : calls[i].op \notin {"N51ICP_exit", "N51PGM_deinit"}

\* the identity check of lines 192-207 has been passed or failed
IdentityChecked == devinfo # NoIdent /\ pc \notin {"reentry", "check_devid"}

\* ------------------------------------------------------------------ claims

\* C1: a write of the configuration bytes with LOCK = 0 is in the call log only
\* if -s was given and only after the full-flash read-back was compared with
\* the expected image and found equal over all FLASH_SIZE bytes.
C1_LockOnlyAfterVerify ==
  \A i \in 1..Len(calls) :
    IsLockWrite(calls[i]) =>
      /\ lock_chip
      /\ verify = "ok"
      /\ memcmp(write_data, read_data, FLASH_SIZE) = 0
      /\ \E j \in 1..(i - 1) : IsFullRead(calls[j])

C1_Witness ==
  /\ pc = "done" /\ ret = 0
  /\ \E i \in 1..Len(calls) : IsLockWrite(calls[i])

\* C2: once the identity check has found a device id other than N76E003_DEVID
\* and the prompt was not answered 'y' or 'Y', no mass erase and no flash write
\* is ever in the call log (stated for the runs without -u).
C2_NoMutationWithoutConfirm ==
  (/\ IdentityChecked /\ ~dump_config
   /\ devinfo.devid # N76E003_DEVID /\ answer \notin {"y", "Y"})
    => NoMutation

\* C3: after a verification mismatch the run is on its error exit: the only
\* transport calls after the read-back are the configuration dump and the
\* shutdown (no flash write, no lock write), and the run returns non-zero.
C3_MismatchStops ==
  verify = "fail" =>
    LET last == CHOOSE i \in 1..Len(calls) :
                  /\ IsFullRead(calls[i])
                  /\ \A j \in (i + 1)..Len(calls) : ~IsFullRead(calls[j])
        after == SubSeq(CallOps, last + 1, Len(calls))
    IN  /\ \E i \in 1..Len(calls) : IsFullRead(calls[i])
        /\ \/ pc = "out_err" /\ after = <<"N51ICP_dump_config">>
           \/ pc = "done" /\ ret = 1 /\ after = <<"N51ICP_dump_config">> \o ShutdownOps

C3_Witness == verify = "fail" /\ pc = "done"

\* C4: after a failing flash read, flash write or mass erase call no further
\* flash read, flash write or mass erase is issued and the run returns non-zero
\* (stated for the runs without -u).
C4_FaultAborts ==
  \A i \in 1..Len(calls) :
    (~dump_config /\ calls[i].op \in FlashOps /\ ~calls[i].ok) =>
      /\ \A j \in (i + 1)..Len(calls) : calls[j].op \notin FlashOps
      /\ pc = "done" => ret # 0

\* the fatal conditions, as seen at the end of a run: a failed initialisation,
\* an unsupported chip, a locked chip that was to be read, a verification
\* mismatch, a flash image that could not be saved, a failed flash call
FatalSeen ==
  \/ ~calls[1].ok
  \/ /\ devinfo # NoIdent /\ devinfo.devid # N76E003_DEVID
     /\ ~((write_ldrom = 1 \/ write_aprom = 1) /\ devinfo.cid = CID_LOCKED)
  \/ current_config.LOCK = 0 /\ write_aprom = 0 /\ write_ldrom = 0
  \/ verify = "fail"
  \/ /\ \E i \in 1..Len(calls) : IsFullRead(calls[i])
     /\ write_aprom = 0 /\ write_ldrom = 0
     /\ out_file.state # "written"
  \/ \E i \in 1..Len(calls) : calls[i].op \in FlashOps /\ ~calls[i].ok

\* C5: every run that called N51ICP_init ends with N51ICP_exit and
\* N51PGM_deinit as its last calls, also when the initialisation failed, and
\* every fatal condition gives a non-zero exit status.
C5_AlwaysShutDown ==
  (pc = "done" /\ Len(calls) > 0) =>
    /\ EndsWithShutdown
    /\ FatalSeen => ret # 0

\* C6: a device id other than N76E003_DEVID with a company id other than 0xFF
\* and no -w / -l ends the run with the unsupported-device failure; the
\* transport has then seen the initialisation, the identity reads (with the
\* bootstrap re-entry between them when the first company id was 0xFF) and the
\* shutdown, and nothing else: no mass erase, no flash write, no later re-entry.
C6_UnsupportedNoMutation ==
  (/\ IdentityChecked
   /\ devinfo.devid # N76E003_DEVID /\ devinfo.cid # CID_LOCKED
   /\ write_aprom = 0 /\ write_ldrom = 0)
    => LET boot == <<"N51ICP_init">> \o IdentOps
           again == (boot \o <<"N51ICP_reentry">>) \o IdentOps
       IN  \/ pc = "out_err" /\ CallOps \in {boot, again}
           \/ /\ pc = "done" /\ ret = 1
              /\ CallOps \in {boot \o ShutdownOps, again \o ShutdownOps}

C6_Witness ==
  /\ pc = "done"
  /\ devinfo # NoIdent /\ devinfo.devid # N76E003_DEVID /\ devinfo.cid # CID_LOCKED
  /\ write_aprom = 0 /\ write_ldrom = 0

\* C7: when the configuration bytes read have LOCK = 0 and neither -w nor -l
\* was given, the run is on its error exit and returns non-zero, and the call
\* log holds no read of the flash array, no mass erase and no flash write.
C7_LockedReadRefused ==
  (/\ current_config # NoConfig /\ current_config.LOCK = 0
   /\ write_aprom = 0 /\ write_ldrom = 0)
    => /\ pc \in {"out_err", "done"}
       /\ pc = "done" => ret = 1
       /\ NoMutation
       /\ \A i \in 1..Len(calls) :
            calls[i].op = "N51ICP_read_flash" => calls[i].args[1] = CFG_FLASH_ADDR

C7_Witness ==
  /\ pc = "done" /\ read_aprom = 1
  /\ current_config # NoConfig /\ current_config.LOCK = 0
  /\ write_aprom = 0 /\ write_ldrom = 0

\* C8: for a loader image of L bytes, 1 <= L <= LDROM_MAX_SIZE, chosen_ldrom_sz
\* is the smallest multiple of 1024 that is >= L, and aprom_size plus
\* chosen_ldrom_sz is FLASH_SIZE.
C8_PlanRoundsUp ==
  (/\ write_ldrom = 1 /\ write_config # NoConfig
   /\ ldrom_file_len \in 1..LDROM_MAX_SIZE)
    => /\ \E m \in 0..(LDROM_MAX_SIZE \div KiB) : chosen_ldrom_sz = m * KiB
       /\ chosen_ldrom_sz >= ldrom_file_len
       /\ \A m \in 0..(LDROM_MAX_SIZE \div KiB) :
            m * KiB >= ldrom_file_len => chosen_ldrom_sz <= m * KiB
       /\ aprom_size # -1 => aprom_size + chosen_ldrom_sz = FLASH_SIZE

C8_Witness ==
  /\ write_ldrom = 1 /\ ldrom_file_len = KiB + 1
  /\ chosen_ldrom_sz = 2 * KiB
  /\ aprom_size = FLASH_SIZE - 2 * KiB

\* C9: a plan for no loader bytes (no -l, or -l with an empty image) is the
\* all-ones default configuration, a loader size of 0 and an application
\* capacity of FLASH_SIZE.
C9_EmptyLoaderPlansNothing ==
  (/\ pc \in {"write_cfg", "write_ldrom", "aprom", "write_aprom", "written"}
   /\ write_ldrom = 0 \/ ldrom_file_len = 0)
    => /\ write_config = get_default_config
       /\ chosen_ldrom_sz = 0
       /\ aprom_size # -1 => aprom_size = FLASH_SIZE

\* C10: a loader image of exactly LDROM_MAX_SIZE bytes plans LDROM_MAX_SIZE
\* bytes of loader, and a loader image longer than LDROM_MAX_SIZE is rejected:
\* nothing is written into the loader region and the run returns non-zero.
C10_OversizeRejected ==
  /\ ldrom_file_len = LDROM_MAX_SIZE => chosen_ldrom_sz = LDROM_MAX_SIZE
  /\ ldrom_file_len > LDROM_MAX_SIZE =>
       /\ \A i \in 1..Len(calls) : ~IsLoaderWrite(calls[i])
       /\ pc = "done" => ret # 0


\* a write into the flash array (not the configuration bytes)
IsArrayWrite(c) == c.op = "N51ICP_write_flash" /\ c.args[1] # CFG_FLASH_ADDR

\* C11: with every flash call succeeding, an application image of A bytes,
\* A <= FLASH_SIZE, written without a loader image gives one write into the
\* flash array, of exactly A bytes of the image at address 0; the read-back is
\* the image followed by 0xFF up to FLASH_SIZE; and the compare succeeds.
C11_RoundTrip ==
  (/\ write_aprom = 1 /\ write_ldrom = 0 /\ ~dump_config
   /\ verify # "none" /\ faults = 0
   /\ aprom_file_len \in 0..FLASH_SIZE)
    => /\ \E i \in 1..Len(calls) : IsArrayWrite(calls[i])
       /\ \A i \in 1..Len(calls) :
            IsArrayWrite(calls[i]) =>
              /\ calls[i].args[1] = APROM_FLASH_ADDR
              /\ calls[i].args[2] = aprom_file_len
              /\ calls[i].args[3] = ApromFile(aprom_file_len)
       /\ Cardinality({i \in 1..Len(calls) : IsArrayWrite(calls[i])}) = 1
       /\ read_data = Cat(ApromFile(aprom_file_len),
                          Run(FLASH_SIZE - aprom_file_len, FILL))
       /\ verify = "ok"

C11_Witness ==
  /\ write_aprom = 1 /\ write_ldrom = 0 /\ faults = 0
  /\ aprom_file_len = 18000 /\ verify = "ok" /\ pc = "done"


\* C12: a run with neither an application nor a loader write requested issues
\* no mass erase and no flash write (so no lock write) and makes no compare;
\* a read run that returns 0 has read FLASH_SIZE bytes from address 0 and
\* written exactly the read buffer to its output file, which is the device's
\* flash content when the read call succeeded.
C12_ReadPathIsPure ==
  (write_aprom = 0 /\ write_ldrom = 0)
    => /\ NoMutation
       /\ verify = "none"
       /\ \A i \in 1..Len(calls) : ~IsLockWrite(calls[i])
       /\ (pc = "done" /\ ret = 0 /\ read_aprom = 1 /\ ~dump_config)
            => /\ \E i \in 1..Len(calls) :
                    /\ IsFullRead(calls[i])
                    /\ \A j \in 1..Len(calls) :
                         calls[j].op = "N51ICP_read_flash" /\ j # i
                           => calls[j].args[1] = CFG_FLASH_ADDR
                    /\ calls[i].ok => out_file.data = dev_flash
               /\ out_file.state = "written"
               /\ out_file.data = read_data
               /\ dev_flash \in StartFlash

C12_Witness ==
  /\ pc = "done" /\ ret = 0 /\ read_aprom = 1 /\ ~dump_config
  /\ write_aprom = 0 /\ write_ldrom = 0 /\ faults = 0
  /\ out_file.state = "written" /\ out_file.data # ErasedFlash


\* lines 155 and 159: the selections main() rejects
ConflictingSelection == read_aprom = 1 /\ write_aprom = 1
EmptySelection == read_aprom = 0 /\ write_aprom = 0 /\ ~dump_config

IsMassErase(c) == c.op = "N51ICP_mass_erase"
IsAnyWrite(c) == c.op = "N51ICP_write_flash"
IsConfigWrite(c) == c.op = "N51ICP_write_flash" /\ c.args[1] = CFG_FLASH_ADDR
IsLdromWrite(c) == IsArrayWrite(c) /\ c.args[1] = FLASH_SIZE - chosen_ldrom_sz /\ write_ldrom = 1
IsApromWrite(c) == IsArrayWrite(c) /\ c.args[1] = APROM_FLASH_ADDR

\* the positions in the call log of the calls of each kind
AnyWriteAt == {i \in 1..Len(calls) : IsAnyWrite(calls[i])}
ApromWriteAt == {i \in 1..Len(calls) : IsApromWrite(calls[i])}
ArrayWriteAt == {i \in 1..Len(calls) : IsArrayWrite(calls[i])}
ConfigWriteAt == {i \in 1..Len(calls) : IsConfigWrite(calls[i])}
FullReadAt == {i \in 1..Len(calls) : IsFullRead(calls[i])}
LdromWriteAt == {i \in 1..Len(calls) : IsLdromWrite(calls[i])}
MassEraseAt == {i \in 1..Len(calls) : IsMassErase(calls[i])}

\* C15: in the call log of every run, a mass erase precedes every flash write;
\* the write of the configuration bytes at CFG_FLASH_ADDR comes directly before
\* the loader write at FLASH_SIZE - chosen_ldrom_sz; the loader write precedes
\* the application write at address 0; both precede the full read-back; and
\* the read-back of a writing run has every requested write before it.
C15_WriteOrder ==
  /\ \A w \in AnyWriteAt : \E e \in MassEraseAt : e < w
  /\ \A w \in ArrayWriteAt : IsLdromWrite(calls[w]) \/ IsApromWrite(calls[w])
  /\ \A l \in LdromWriteAt :
       /\ l > 1 /\ IsConfigWrite(calls[l - 1]) /\ ~IsLockWrite(calls[l - 1])
       /\ \A a \in ApromWriteAt : l < a
       /\ \A r \in FullReadAt : l < r
  /\ \A a \in ApromWriteAt : \A r \in FullReadAt : a < r
  /\ (write_aprom = 1 \/ write_ldrom = 1)
       => \A r \in FullReadAt :
            /\ write_ldrom = 1 => LdromWriteAt # {}
            /\ write_aprom = 1 => ApromWriteAt # {}

C15_Witness ==
  /\ pc = "done" /\ write_aprom = 1 /\ write_ldrom = 1
  /\ MassEraseAt # {} /\ ConfigWriteAt # {}
  /\ LdromWriteAt # {} /\ ApromWriteAt # {}
  /\ FullReadAt # {}


\* C16: every write into the flash array lies inside [0, FLASH_SIZE); the
\* application write covers [0, n) with n <= FLASH_SIZE - chosen_ldrom_sz; the
\* loader write lies inside [FLASH_SIZE - chosen_ldrom_sz, FLASH_SIZE); the two
\* ranges do not meet; and after both writes succeeded the loader region of the
\* device still holds the loader image.
C16_RegionsDisjoint ==
  /\ \A w \in ArrayWriteAt :
       /\ calls[w].args[1] >= 0 /\ calls[w].args[2] >= 0
       /\ calls[w].args[1] + calls[w].args[2] <= FLASH_SIZE
  /\ \A a \in ApromWriteAt :
       /\ calls[a].args[2] <= FLASH_SIZE - chosen_ldrom_sz
       /\ \A l \in LdromWriteAt :
            calls[a].args[1] + calls[a].args[2] <= calls[l].args[1]
  /\ \A l \in LdromWriteAt :
       /\ chosen_ldrom_sz \in 1..LDROM_MAX_SIZE
       /\ calls[l].args[1] >= FLASH_SIZE - chosen_ldrom_sz
       /\ calls[l].args[1] + calls[l].args[2] <= FLASH_SIZE
  /\ (pc = "written" /\ faults = 0 /\ write_ldrom = 1 /\ write_aprom = 1)
       => /\ Take(Drop(dev_flash, FLASH_SIZE - chosen_ldrom_sz), ldrom_program_size)
               = Take(ldrom_data, ldrom_program_size)
          /\ Take(dev_flash, aprom_program_size) = Take(write_data, aprom_program_size)

\* a loader of 4 KiB and an application file one byte over the capacity left
C16_Witness ==
  /\ pc = "written" /\ faults = 0
  /\ ldrom_file_len = LDROM_MAX_SIZE
  /\ aprom_file_len = FLASH_SIZE - LDROM_MAX_SIZE + 1
  /\ LdromWriteAt # {} /\ ApromWriteAt # {}


IsReentry(c) == c.op = "N51ICP_reentry"
ReentryAt == {i \in 1..Len(calls) : IsReentry(calls[i])}

\* the place in the call log of the re-entry of line 188: after N51ICP_init and
\* the four identity reads
BootReentryAt == 2 + Len(get_device_info_calls)

\* C17: the call log holds at most two re-entries, each with the arguments
\* (5000, 1000, 10). One is at bootstrap, taken exactly when the first identity
\* read gave company id 0xFF, and the four identity reads follow it; the other
\* comes directly after the mass erase, exactly when the configuration read
\* before the erase had LOCK = 0 or the identity has company id 0xFF. No other
\* re-entry exists, and no call that failed is issued a second time.
C17_ReentryOnlyRetry ==
  LET R == ReentryAt
  IN  /\ Cardinality(R) <= 2
      /\ \A r \in R : calls[r].args = <<5000, 1000, 10>>
      /\ \A r \in R : r = BootReentryAt \/ IsMassErase(calls[r - 1])
      /\ pc = "reentry" => devinfo.cid = CID_LOCKED /\ R = {}
      /\ BootReentryAt \in R
           => /\ SubSeq(CallOps, 2, BootReentryAt - 1) = IdentOps
              /\ SubSeq(CallOps, BootReentryAt + 1, BootReentryAt + 4) = IdentOps
      /\ (IdentityChecked /\ BootReentryAt \notin R) => devinfo.cid # CID_LOCKED
      /\ \A e \in MassEraseAt :
           (e + 1 \in R) <=> (current_config.LOCK = 0 \/ devinfo.cid = CID_LOCKED)
      /\ Cardinality(MassEraseAt) <= 1
      /\ \A i \in 1..Len(calls) :
           ~calls[i].ok => \A j \in (i + 1)..Len(calls) : calls[j].op # calls[i].op
                                                           \/ calls[j].args # calls[i].args

\* a run with both re-entries
C17_Witness ==
  /\ pc = "done"
  /\ Cardinality(ReentryAt) = 2
  /\ BootReentryAt \in ReentryAt


\* the data-model rule: the loader region, in bytes, that an LDS code declares
DeclaredLdromSize(lds) == ((7 - lds) % 8) * KiB

\* the least number of KiB that holds n bytes
KiBFor(n) == CHOOSE k \in 0..(CDiv(n, KiB) + 1) : k * KiB >= n /\ \A j \in 0..(k - 1) : j * KiB < n

\* C18: once the plan is made for a loader file of 1..LDROM_MAX_SIZE bytes,
\* write_config has CBS = 0 and LDS = (7 - kb) & 7 for kb the file length
\* rounded up to KiB; the size this LDS declares is chosen_ldrom_sz; the
\* configuration write carries these bytes; and the loader write starts at
\* FLASH_SIZE minus the declared size and ends inside the flash.
C18_LdsRoundTrip ==
  (write_ldrom = 1 /\ pc # "ldrom" /\ ldrom_file_len \in 1..LDROM_MAX_SIZE)
    => /\ write_config.CBS = 0
       /\ write_config.LDS = (7 - KiBFor(ldrom_file_len)) % 8
       /\ DeclaredLdromSize(write_config.LDS) = KiBFor(ldrom_file_len) * KiB
       /\ DeclaredLdromSize(write_config.LDS) = chosen_ldrom_sz
       /\ \A c \in ConfigWriteAt :
            calls[c].args[3].CBS = 0 /\ calls[c].args[3].LDS = write_config.LDS
       /\ \A l \in ArrayWriteAt :
            calls[l].args[1] # APROM_FLASH_ADDR
              => /\ calls[l].args[1] = FLASH_SIZE - DeclaredLdromSize(write_config.LDS)
                 /\ calls[l].args[2] = ldrom_file_len
                 /\ calls[l].args[2] <= DeclaredLdromSize(write_config.LDS)
       /\ (pc = "aprom" /\ faults = 0) => DeclaredLdromSize(dev_cfg.LDS) = chosen_ldrom_sz

\* a loader of one byte over 1 KiB: two KiB declared, the loader written
C18_Witness ==
  /\ write_ldrom = 1 /\ ldrom_file_len = KiB + 1 /\ pc = "aprom" /\ faults = 0
  /\ write_config.LDS = 5
  /\ ArrayWriteAt # {}


\* C19: a run in which -u was parsed has no mass erase and no flash write in
\* its call log, and its calls are the start-up, the identity reads, the read
\* of the configuration bytes and the shutdown only.
C19_DumpNeverMutates ==
  dump_config
    => /\ NoMutation
       /\ \A i \in 1..Len(calls) :
            calls[i].op = "N51ICP_read_flash" => calls[i].args[1] = CFG_FLASH_ADDR

\* C20: a run in which -r was parsed (and -u was not) has no mass erase and no
\* flash write in its call log, and when it returns 0 its output file holds
\* the FLASH_SIZE bytes of a read of the whole flash.
C20_ReadNeverMutates ==
  (read_aprom = 1 /\ ~dump_config)
    => /\ NoMutation
       /\ (pc = "done" /\ ret = 0)
            => /\ FullReadAt # {}
               /\ out_file.state = "written"
               /\ out_file.data = read_data


\* C13: no step of a run in which -u was parsed changes the flash content or
\* the configuration bytes of the device, so that a second dump-config run
\* reads the identity and the configuration bytes the first one read.
C13_DumpLeavesDevice ==
  [][dump_config => (dev_flash' = dev_flash /\ dev_cfg' = dev_cfg)]_vars

====
